---- MODULE Spec2Model ----
(***************************************************************************)
(* PromptCrafter: main.py (orchestrator), core.py (load_config,            *)
(* load_template, validate_placeholders) and generator.py (generate_param, *)
(* generate_all) as a state machine.                                       *)
(*                                                                         *)
(* Python strings are sequences of one-character strings; a few fixed      *)
(* literals are written as one-element sequences holding the literal.      *)
(* YAML / Python values are tagged records: [t |-> "None"],                *)
(* [t |-> "str", s |-> <chars>], [t |-> "num", n |-> <tenths>].            *)
(* Numbers are temperatures or prompts, kept in tenths (7 is 0.7).         *)
(***************************************************************************)
EXTENDS Integers, Sequences, FiniteSets, TLC

\* ------------------------------------------------------------ bounds
\* longest params sequence of a configuration document / parameter list
MaxParams == 2

\* ------------------------------------------------------------ values
PyNone == [t |-> "None"]
PyStr(s) == [t |-> "str", s |-> s]
PyNum(n) == [t |-> "num", n |-> n]

\* Python truthiness of a value (bool(v)).
Truthy(v) ==
    CASE v.t = "None" -> FALSE
      [] v.t = "str" -> v.s # <<>>
      [] v.t = "num" -> v.n # 0
      [] OTHER -> TRUE

\* a or b
PyOr(a, b) == IF Truthy(a) THEN a ELSE b

NoExc == [type |-> "none", msg |-> "none"]
Exc(type, msg) == [type |-> type, msg |-> msg]

\* Console line.
Line(k, v) == [k |-> k, v |-> v]

Range(s) == {s[i] : i \in 1..Len(s)}

\* ------------------------------------------------------------ ordered dict
\* A Python dict is a sequence of <<key, value>> pairs with distinct keys, in
\* insertion order.
DictKeys(d) == [i \in 1..Len(d) |-> d[i][1]]
DictKeySet(d) == {d[i][1] : i \in 1..Len(d)}
DictGet(d, k) == LET i == CHOOSE j \in 1..Len(d) : d[j][1] = k IN d[i][2]
\* d[k] = v: an existing key keeps its position, a new key is appended.
DictSet(d, k, v) ==
    IF k \in DictKeySet(d)
    THEN [i \in 1..Len(d) |-> IF d[i][1] = k THEN <<k, v>> ELSE d[i]]
    ELSE Append(d, <<k, v>>)

\* ------------------------------------------------------------ strings
Whitespace == {" "}

RECURSIVE LStrip(_)
LStrip(s) == IF s # <<>> /\ Head(s) \in Whitespace THEN LStrip(Tail(s)) ELSE s

RECURSIVE RStrip(_)
RStrip(s) ==
    IF s # <<>> /\ s[Len(s)] \in Whitespace
    THEN RStrip(SubSeq(s, 1, Len(s) - 1))
    ELSE s

\* str.strip()
Strip(s) == RStrip(LStrip(s))

\* Order of characters, and sorted() of a set of strings.
CharRank(c) ==
    CASE c = " " -> 0 [] c = "x" -> 1 [] c = "y" -> 2 [] c = "z" -> 3
      [] c = "{" -> 4 [] c = "}" -> 5 [] OTHER -> 6

RECURSIVE StrLess(_, _)
StrLess(a, b) ==
    IF b = <<>> THEN FALSE
    ELSE IF a = <<>> THEN TRUE
    ELSE IF CharRank(Head(a)) # CharRank(Head(b))
         THEN CharRank(Head(a)) < CharRank(Head(b))
         ELSE StrLess(Tail(a), Tail(b))

RECURSIVE Sorted(_)
Sorted(S) ==
    IF S = {} THEN <<>>
    ELSE LET m == CHOOSE a \in S : \A b \in S \ {a} : StrLess(a, b)
         IN <<m>> \o Sorted(S \ {m})

\* ------------------------------------------------------------ load_template
Braces == {"{", "}"}

\* First position >= i of text that holds a brace, or Len(text) + 1.
RECURSIVE RunEnd(_, _)
RunEnd(text, i) ==
    IF i > Len(text) \/ text[i] \in Braces THEN i ELSE RunEnd(text, i + 1)

\* re.findall(r"{([^{}]+)}", text) from position i on: the non-overlapping
\* matches, left to right.
RECURSIVE FindAll(_, _)
FindAll(text, i) ==
    IF i > Len(text) THEN <<>>
    ELSE IF text[i] = "{"
         THEN LET e == RunEnd(text, i + 1)
              IN IF e > i + 1 /\ e <= Len(text) /\ text[e] = "}"
                 THEN <<SubSeq(text, i + 1, e - 1)>> \o FindAll(text, e + 1)
                 ELSE FindAll(text, i + 1)
         ELSE FindAll(text, i + 1)

\* The seen-set loop: first-occurrence order, duplicates dropped.
RECURSIVE Dedupe(_, _)
Dedupe(found, seen) ==
    IF found = <<>> THEN <<>>
    ELSE IF Head(found) \in seen
         THEN Dedupe(Tail(found), seen)
         ELSE <<Head(found)>> \o Dedupe(Tail(found), seen \cup {Head(found)})

\* load_template(path): the raised exception or the placeholders, and what it
\* prints.
load_template(file) ==
    IF file.kind = "missing"
    THEN [exc |-> Exc("FileNotFoundError", "template"),
          placeholders |-> <<>>,
          out |-> <<Line("template_not_found", <<>>)>>]
    ELSE IF file.kind = "unreadable"
    THEN [exc |-> Exc("Exception", "template"),
          placeholders |-> <<>>,
          out |-> <<Line("template_read_error", <<>>)>>]
    ELSE [exc |-> NoExc,
          placeholders |-> Dedupe(FindAll(file.text, 1), {}),
          out |-> <<>>]

\* ------------------------------------------------------------ load_config
\* A parsed YAML mapping; an absent key reads as None, as data.get(key) does.
\*   model, output : PyNone or [t |-> "dict", ...]
\*   params        : PyNone, a scalar, or [t |-> "list", items |-> <<...>>]
\*   an item       : a scalar or [t |-> "dict", name |-> v, prompt |-> v]
EmptyDoc ==
    [openai_model |-> PyNone, model |-> PyNone, temperature |-> PyNone,
     params |-> PyNone, output_file |-> PyNone, output |-> PyNone]

NoConfig ==
    [model_name |-> PyNone, temperature |-> PyNone, params |-> <<>>,
     output_file |-> PyNone]

\* The loop over params_data: the first bad item raises, a repeated name
\* overwrites.
RECURSIVE BuildParams(_, _)
BuildParams(items, params) ==
    IF items = <<>> THEN [exc |-> NoExc, params |-> params, out |-> <<>>]
    ELSE LET item == Head(items) IN
         IF item.t # "dict"
         THEN [exc |-> Exc("ValueError", "params_item_format"), params |-> <<>>,
               out |-> <<Line("params_item_not_dict", <<>>)>>]
         ELSE IF ~Truthy(item.name) \/ ~Truthy(item.prompt)
         THEN [exc |-> Exc("ValueError", "params_info_missing"), params |-> <<>>,
               out |-> <<Line("params_item_incomplete", <<>>)>>]
         ELSE BuildParams(Tail(items), DictSet(params, item.name, item.prompt))

\* Mutant: temperature = data.get("temperature") or model_section's.
ResolveTemperatureOr(data, model_section) ==
    PyOr(data.temperature, model_section.temperature)

\* temperature = data.get("temperature"); if None, model_section's.
ResolveTemperature(data, model_section) ==
    IF data.temperature = PyNone THEN model_section.temperature
    ELSE data.temperature

ResolveOutputFile(data) ==
    IF Truthy(data.output_file) THEN data.output_file
    ELSE LET output_section ==
                 IF data.output.t = "dict" THEN data.output
                 ELSE [t |-> "dict", directory |-> PyNone, filename |-> PyNone]
         IN IF Truthy(output_section.directory) /\ Truthy(output_section.filename)
            THEN PyStr(output_section.directory.s \o <<"/">>
                       \o output_section.filename.s)
            ELSE data.output_file

\* load_config(path): the raised exception or the configuration record, and
\* what it prints.
load_config(file) ==
    IF file.kind = "missing"
    THEN [exc |-> Exc("FileNotFoundError", "config"), config |-> NoConfig,
          out |-> <<Line("config_not_found", <<>>)>>]
    ELSE IF file.kind = "badyaml"
    THEN [exc |-> Exc("YAMLError", "config"), config |-> NoConfig,
          out |-> <<Line("config_yaml_error", <<>>)>>]
    ELSE IF file.kind = "notdict"
    THEN [exc |-> Exc("AttributeError", "get"), config |-> NoConfig,
          out |-> <<>>]
    ELSE LET data == file.data
             model_section ==
                 IF data.model.t = "dict" THEN data.model
                 ELSE [t |-> "dict", name |-> PyNone, temperature |-> PyNone]
             model_name == PyOr(data.openai_model, model_section.name)
             temperature == ResolveTemperature(data, model_section)
         IN IF data.params.t # "list"
            THEN [exc |-> Exc("ValueError", "params_format"), config |-> NoConfig,
                  out |-> <<Line("params_not_list", <<>>)>>]
            ELSE LET b == BuildParams(data.params.items, <<>>) IN
                 IF b.exc # NoExc
                 THEN [exc |-> b.exc, config |-> NoConfig, out |-> b.out]
                 ELSE [exc |-> NoExc,
                       config |-> [model_name |-> model_name,
                                   temperature |-> temperature,
                                   params |-> b.params,
                                   output_file |-> ResolveOutputFile(data)],
                       out |-> <<>>]

\* ------------------------------------------------------------ validate_placeholders
\* Mutant: only placeholders the configuration lacks are a mismatch.
validate_placeholdersOneWay(template_placeholders, config_params) ==
    LET template_set == Range(template_placeholders)
        config_set == {k.s : k \in DictKeySet(config_params)}
        missing_in_config == template_set \ config_set
    IN IF missing_in_config # {}
       THEN [exc |-> Exc("ValueError", "placeholder_mismatch"),
             out |-> <<Line("missing_in_config", Sorted(missing_in_config))>>]
       ELSE [exc |-> NoExc, out |-> <<>>]

\* Mutant: the two name lists are compared as lists, order included.
validate_placeholdersOrdered(template_placeholders, config_params) ==
    LET template_set == Range(template_placeholders)
        config_set == {k.s : k \in DictKeySet(config_params)}
        missing_in_config == template_set \ config_set
        missing_in_template == config_set \ template_set
        config_list == [i \in 1..Len(config_params) |-> config_params[i][1].s]
    IN IF template_placeholders # config_list
       THEN [exc |-> Exc("ValueError", "placeholder_mismatch"),
             out |-> (IF missing_in_config # {}
                      THEN <<Line("missing_in_config", Sorted(missing_in_config))>>
                      ELSE <<>>)
                     \o (IF missing_in_template # {}
                         THEN <<Line("missing_in_template",
                                     Sorted(missing_in_template))>>
                         ELSE <<>>)]
       ELSE [exc |-> NoExc, out |-> <<>>]

\* validate_placeholders(template_placeholders, config_params): the raised
\* exception, and the lines printed for each non-empty difference.
validate_placeholders(template_placeholders, config_params) ==
    LET template_set == Range(template_placeholders)
        config_set == {k.s : k \in DictKeySet(config_params)}
        missing_in_config == template_set \ config_set
        missing_in_template == config_set \ template_set
    IN IF missing_in_config # {} \/ missing_in_template # {}
       THEN [exc |-> Exc("ValueError", "placeholder_mismatch"),
             out |-> (IF missing_in_config # {}
                      THEN <<Line("missing_in_config", Sorted(missing_in_config))>>
                      ELSE <<>>)
                     \o (IF missing_in_template # {}
                         THEN <<Line("missing_in_template",
                                     Sorted(missing_in_template))>>
                         ELSE <<>>)]
       ELSE [exc |-> NoExc, out |-> <<>>]

\* ------------------------------------------------------------ generator
\* A provider response: a transport error, or an object in one of the shapes
\* _extract_choices probes ("attr": has .choices, "dict": a mapping, "getitem":
\* only indexable, "none": no choices at all).
\*   a choice  : a scalar or [t |-> "dict", message |-> m]
\*   a message : PyNone, a scalar or [t |-> "dict", has_content, content]
_extract_choices(response) ==
    IF response.repr \in {"attr", "dict", "getitem"} THEN response.choices
    ELSE <<>>

\* str(v) of a message content.
StrOf(v) == IF v.t = "str" THEN v.s ELSE <<"N", "o", "n", "e">>

\* _prepare_api_key(): TRUE when it raises.
_prepare_api_key(api_key) == ~Truthy(api_key)

\* The request generate_param builds.
request_params(prompt_text, model, temperature) ==
    [model |-> model, content |-> prompt_text,
     has_temperature |-> temperature # PyNone,
     temperature |-> temperature]

\* Mutant: the returned text is not stripped.
generate_paramNoStrip(prompt_text, model, temperature, api_key, resp) ==
    IF _prepare_api_key(api_key)
    THEN [exc |-> Exc("EnvironmentError", "no_api_key"), value |-> <<>>,
          calls |-> <<>>]
    ELSE IF ~Truthy(prompt_text)
    THEN [exc |-> Exc("ValueError", "empty_prompt"), value |-> <<>>,
          calls |-> <<>>]
    ELSE LET call == [request |-> request_params(prompt_text, model, temperature),
                      response |-> resp]
         IN IF resp.kind = "error"
            THEN [exc |-> Exc("RuntimeError", "call_failed"), value |-> <<>>,
                  calls |-> <<call>>]
            ELSE LET choices == _extract_choices(resp) IN
                 IF choices = <<>>
                 THEN [exc |-> Exc("RuntimeError", "no_result"), value |-> <<>>,
                       calls |-> <<call>>]
                 ELSE LET message == IF choices[1].t = "dict"
                                     THEN choices[1].message ELSE PyNone
                      IN IF message.t # "dict" \/ ~message.has_content
                         THEN [exc |-> Exc("RuntimeError", "bad_format"),
                               value |-> <<>>, calls |-> <<call>>]
                         ELSE [exc |-> NoExc,
                               value |-> StrOf(message.content),
                               calls |-> <<call>>]

\* Mutant: the credential is looked up only after the provider answered.
generate_paramLateKeyCheck(prompt_text, model, temperature, api_key, resp) ==
    IF ~Truthy(prompt_text)
    THEN [exc |-> Exc("ValueError", "empty_prompt"), value |-> <<>>,
          calls |-> <<>>]
    ELSE LET call == [request |-> request_params(prompt_text, model, temperature),
                      response |-> resp]
         IN IF resp.kind = "error"
            THEN [exc |-> Exc("RuntimeError", "call_failed"), value |-> <<>>,
                  calls |-> <<call>>]
            ELSE IF _prepare_api_key(api_key)
            THEN [exc |-> Exc("EnvironmentError", "no_api_key"), value |-> <<>>,
                  calls |-> <<call>>]
            ELSE LET choices == _extract_choices(resp) IN
                 IF choices = <<>>
                 THEN [exc |-> Exc("RuntimeError", "no_result"), value |-> <<>>,
                       calls |-> <<call>>]
                 ELSE LET message == IF choices[1].t = "dict"
                                     THEN choices[1].message ELSE PyNone
                      IN IF message.t # "dict" \/ ~message.has_content
                         THEN [exc |-> Exc("RuntimeError", "bad_format"),
                               value |-> <<>>, calls |-> <<call>>]
                         ELSE [exc |-> NoExc,
                               value |-> Strip(StrOf(message.content)),
                               calls |-> <<call>>]

\* generate_param(prompt_text, model, temperature) with the environment's
\* credential and the provider answering resp: the raised exception or the
\* returned text, and the provider calls it made.
generate_param(prompt_text, model, temperature, api_key, resp) ==
    IF _prepare_api_key(api_key)
    THEN [exc |-> Exc("EnvironmentError", "no_api_key"), value |-> <<>>,
          calls |-> <<>>]
    ELSE IF ~Truthy(prompt_text)
    THEN [exc |-> Exc("ValueError", "empty_prompt"), value |-> <<>>,
          calls |-> <<>>]
    ELSE LET call == [request |-> request_params(prompt_text, model, temperature),
                      response |-> resp]
         IN IF resp.kind = "error"
            THEN [exc |-> Exc("RuntimeError", "call_failed"), value |-> <<>>,
                  calls |-> <<call>>]
            ELSE LET choices == _extract_choices(resp) IN
                 IF choices = <<>>
                 THEN [exc |-> Exc("RuntimeError", "no_result"), value |-> <<>>,
                       calls |-> <<call>>]
                 ELSE LET message == IF choices[1].t = "dict"
                                     THEN choices[1].message ELSE PyNone
                      IN IF message.t # "dict" \/ ~message.has_content
                         THEN [exc |-> Exc("RuntimeError", "bad_format"),
                               value |-> <<>>, calls |-> <<call>>]
                         ELSE [exc |-> NoExc,
                               value |-> Strip(StrOf(message.content)),
                               calls |-> <<call>>]

\* ------------------------------------------------------------ inputs
SeqsUpTo(S, n) == UNION {[1..k -> S] : k \in 0..n}

\* Template files: absent, unreadable, or one of these texts.
TemplateTexts ==
    { <<>>,
      <<"{", "x", "}">>,
      <<"{", "x", "}", " ", "{", "y", "}">>,
      <<"{", "y", "}", "{", "x", "}", "{", "y", "}">>,
      <<"{", "{", "x", "}">>,
      <<"{", "x">>,
      <<"{", "}", "x", "}">>,
      <<"{", "x", "}", "{", "z", "}">>,
      <<"{", " ", "x", "}">> }

TemplateFiles ==
    {[kind |-> "missing", text |-> <<>>], [kind |-> "unreadable", text |-> <<>>]}
    \cup {[kind |-> "text", text |-> t] : t \in TemplateTexts}

ParamNames == {PyNone, PyStr(<<"x">>), PyStr(<<"y">>)}
ParamPrompts == {PyStr(<<>>), PyStr(<<"p">>), PyStr(<<"q", " ">>), PyNum(50)}

ParamDicts == {[t |-> "dict", name |-> n, prompt |-> p] :
                  n \in ParamNames, p \in ParamPrompts}

\* The fields of a document other than params.
ConfigHeads ==
    { EmptyDoc,
      [EmptyDoc EXCEPT !.openai_model = PyStr(<<"A">>),
                       !.temperature = PyNum(0),
                       !.model = [t |-> "dict", name |-> PyStr(<<"B">>),
                                  temperature |-> PyNum(5)],
                       !.output_file = PyStr(<<"o">>)],
      [EmptyDoc EXCEPT !.model = [t |-> "dict", name |-> PyStr(<<"B">>),
                                  temperature |-> PyNum(5)],
                       !.output = [t |-> "dict", directory |-> PyStr(<<"d">>),
                                   filename |-> PyStr(<<"f">>)]],
      [EmptyDoc EXCEPT !.openai_model = PyStr(<<"A">>),
                       !.temperature = PyNum(7)] }

ParamsFields ==
    {PyNone, PyStr(<<"x">>)}
    \cup {[t |-> "list", items |-> l] :
             l \in SeqsUpTo(ParamDicts \cup {PyStr(<<"x">>)}, MaxParams)}

ConfigFiles ==
    {[kind |-> k, data |-> EmptyDoc] : k \in {"missing", "badyaml", "notdict"}}
    \cup {[kind |-> "doc", data |-> [h EXCEPT !.params = ps]] :
             h \in ConfigHeads, ps \in ParamsFields}

\* OPENAI_API_KEY: unset, set to the empty string, or set.
ApiKeys == {PyNone, PyStr(<<>>), PyStr(<<"k">>)}

Echo == <<"E", "C", "H", "O", ":">>

Resp(repr, choices) == [kind |-> "response", repr |-> repr, choices |-> choices]
Choice(message) == [t |-> "dict", message |-> message]
Message(content) == [t |-> "dict", has_content |-> TRUE, content |-> content]

\* What the provider may answer to a request carrying this prompt.
Responses(prompt) ==
    { [kind |-> "error", repr |-> "none", choices |-> <<>>],
      Resp("attr", <<Choice(Message(PyStr(<<" ", "a", " ">>))),
                     Choice(Message(PyStr(<<"b">>)))>>),
      Resp("getitem", <<Choice(Message(PyNone))>>),
      Resp("none", <<>>),
      Resp("dict", <<PyStr(<<"c">>)>>),
      Resp("dict", <<Choice([t |-> "dict", has_content |-> FALSE,
                             content |-> PyNone])>>) }
    \cup (IF prompt.t = "str"
          THEN {Resp("dict", <<Choice(Message(PyStr(Echo \o prompt.s)))>>)}
          ELSE {})

\* ------------------------------------------------------------ state
VARIABLES
    entry,          \* the function the run starts in
    api_key,        \* os.getenv("OPENAI_API_KEY")
    template_file,  \* prompts/template.txt
    config_file,    \* config.yaml
    pc,             \* where the run is
    placeholders,   \* main: template_info["placeholders"]
    config,         \* main: config
    params,         \* generate_all: params
    model,          \* generate_all: model
    temperature,    \* generate_all: temperature
    idx,            \* generate_all: position of the loop in params
    results,        \* generate_all: results
    ret,            \* what the generator call returned to its caller
    raised,         \* the exception that left the entry function
    failed,         \* main: the stage whose handler ended the run
    out,            \* console output
    calls,          \* provider calls made, with their answers
    stages          \* the functions main called, in call order

vars == <<entry, api_key, template_file, config_file, pc, placeholders, config,
          params, model, temperature, idx, results, ret, raised, failed, out,
          calls, stages>>

Unset == [t |-> "unset"]

\* temperature passed by main when the configuration has none, in tenths
DefaultTemperature == 10

UnspecifiedModel == PyStr(<<"unspecified">>)

Init ==
    /\ entry = "main"
    /\ api_key \in ApiKeys
    /\ template_file \in TemplateFiles
    /\ config_file \in ConfigFiles
    /\ pc = "load_template"
    /\ placeholders = <<>>
    /\ config = NoConfig
    /\ params = <<>>
    /\ model = PyNone
    /\ temperature = PyNone
    /\ idx = 1
    /\ results = <<>>
    /\ ret = Unset
    /\ raised = NoExc
    /\ failed = "none"
    /\ out = <<>>
    /\ calls = <<>>
    /\ stages = <<>>

\* ------------------------------------------------------------ main
\* Mutant: except ValueError
CatchesValueError(e) == e.type = "ValueError"

\* except Exception
Catches(e) ==
    e.type \in {"Exception", "FileNotFoundError", "YAMLError", "AttributeError",
                "ValueError", "EnvironmentError", "RuntimeError"}

\* A stage of main raised e after printing `printed`: the handler reports and
\* returns.
MainFails(stage, e, printed) ==
    IF Catches(e)
    THEN /\ out' = out \o printed \o <<Line("main_error", <<stage, e>>)>>
         /\ failed' = stage
         /\ pc' = "done"
         /\ raised' = NoExc
    ELSE /\ out' = out \o printed
         /\ failed' = stage
         /\ pc' = "done"
         /\ raised' = e

\* Mutant: the template handler reports the error and does not return.
MainLoadTemplateContinues ==
    /\ entry = "main" /\ pc = "load_template"
    /\ stages' = Append(stages, "load_template")
    /\ LET r == load_template(template_file) IN
       IF r.exc = NoExc
       THEN /\ placeholders' = r.placeholders
            /\ out' = out \o <<Line("template_ok", <<>>)>>
                          \o [i \in 1..Len(r.placeholders) |->
                                 Line("placeholder", r.placeholders[i])]
       ELSE /\ out' = out \o r.out
                          \o <<Line("main_error", <<"template", r.exc>>)>>
            /\ UNCHANGED placeholders
    /\ pc' = "load_config"
    /\ UNCHANGED <<failed, raised>>
    /\ UNCHANGED <<entry, api_key, template_file, config_file, config, params,
                   model, temperature, idx, results, ret, calls>>

\* main.py 17-25
MainLoadTemplate ==
    /\ entry = "main" /\ pc = "load_template"
    /\ stages' = Append(stages, "load_template")
    /\ LET r == load_template(template_file) IN
       IF r.exc = NoExc
       THEN /\ placeholders' = r.placeholders
            /\ out' = out \o <<Line("template_ok", <<>>)>>
                          \o [i \in 1..Len(r.placeholders) |->
                                 Line("placeholder", r.placeholders[i])]
            /\ pc' = "load_config"
            /\ UNCHANGED <<failed, raised>>
       ELSE /\ MainFails("template", r.exc, r.out)
            /\ UNCHANGED placeholders
    /\ UNCHANGED <<entry, api_key, template_file, config_file, config, params,
                   model, temperature, idx, results, ret, calls>>

\* main.py 27-28, 30-32
MainLoadConfig ==
    /\ entry = "main" /\ pc = "load_config"
    /\ stages' = Append(stages, "load_config")
    /\ LET r == load_config(config_file) IN
       IF r.exc = NoExc
       THEN /\ config' = r.config
            /\ pc' = "validate"
            /\ UNCHANGED <<failed, raised, out>>
       ELSE /\ MainFails("config", r.exc, r.out)
            /\ UNCHANGED config
    /\ UNCHANGED <<entry, api_key, template_file, config_file, placeholders,
                   params, model, temperature, idx, results, ret, calls>>

\* main.py 29, 30-32
MainValidate ==
    /\ entry = "main" /\ pc = "validate"
    /\ stages' = Append(stages, "validate_placeholders")
    /\ LET v == validate_placeholders(placeholders, config.params) IN
       IF v.exc = NoExc
       THEN /\ pc' = "announce"
            /\ UNCHANGED <<failed, raised, out>>
       ELSE MainFails("config", v.exc, v.out)
    /\ UNCHANGED <<entry, api_key, template_file, config_file, placeholders,
                   config, params, model, temperature, idx, results, ret, calls>>

\* main.py 34-57: report the configuration, build params_list and call
\* generate_all.
MainAnnounce ==
    /\ entry = "main" /\ pc = "announce"
    /\ LET model_name == PyOr(config.model_name, UnspecifiedModel)
           params_list == [i \in 1..Len(config.params) |->
                              [t |-> "dict", name |-> config.params[i][1],
                               prompt |-> config.params[i][2]]]
       IN /\ out' = out
                \o <<Line("config_ok", <<model_name, config.temperature>>)>>
                \o [i \in 1..Len(config.params) |->
                       Line("param", config.params[i])]
                \o (IF Truthy(config.output_file)
                    THEN <<Line("output_file", config.output_file)>>
                    ELSE <<>>)
                \o <<Line("calling", <<model_name, Len(params_list)>>)>>
          /\ params' = params_list
          /\ model' = model_name
          /\ temperature' = IF config.temperature # PyNone
                            THEN config.temperature
                            ELSE PyNum(DefaultTemperature)
    /\ idx' = 1
    /\ results' = <<>>
    /\ stages' = Append(stages, "generate_all")
    /\ pc' = "generate"
    /\ UNCHANGED <<entry, api_key, template_file, config_file, placeholders,
                   config, ret, raised, failed, calls>>

\* ------------------------------------------------------------ generate_all
\* Mutant: on a failure generate_all returns what it has collected so far.
GenerateFailsPartial(e, printed) ==
    /\ results' = results
    /\ ret' = [t |-> "dict", d |-> results]
    /\ out' = out \o printed
    /\ pc' = IF entry = "main" THEN "done" ELSE "returned"
    /\ raised' = raised
    /\ failed' = failed

\* generate_all raised e after printing `printed`: its frame, results
\* included, is gone; main's handler (58-60) reports, another caller sees the
\* exception.
GenerateFails(e, printed) ==
    /\ results' = <<>>
    /\ ret' = ret
    /\ IF entry = "main"
       THEN MainFails("generate", e, printed)
       ELSE /\ out' = out \o printed
            /\ pc' = "raised"
            /\ raised' = e
            /\ failed' = failed

\* Mutant: a failed provider call is skipped and the loop goes on.
GenerateStepContinues ==
    /\ pc = "generate" /\ idx <= Len(params)
    /\ LET name == params[idx].name
           prompt == params[idx].prompt
       IN IF ~Truthy(name) \/ ~Truthy(prompt)
          THEN /\ GenerateFails(Exc("ValueError", "param_missing"), <<>>)
               /\ UNCHANGED <<calls, idx>>
          ELSE \E resp \in Responses(prompt) :
                  LET g == generate_param(prompt, model, temperature, api_key, resp)
                  IN /\ calls' = calls \o g.calls
                     /\ results' = IF g.exc = NoExc
                                   THEN DictSet(results, name, g.value)
                                   ELSE results
                     /\ out' = out \o <<Line("generating", name)>>
                                   \o (IF g.exc = NoExc
                                       THEN <<Line("generated", g.value)>>
                                       ELSE <<>>)
                     /\ idx' = idx + 1
                     /\ UNCHANGED <<pc, ret, raised, failed>>
    /\ UNCHANGED <<entry, api_key, template_file, config_file, placeholders,
                   config, params, model, temperature, stages>>

\* One iteration of the loop (generator.py 90-99).
GenerateStep ==
    /\ pc = "generate" /\ idx <= Len(params)
    /\ LET name == params[idx].name
           prompt == params[idx].prompt
       IN IF ~Truthy(name) \/ ~Truthy(prompt)
          THEN /\ GenerateFails(Exc("ValueError", "param_missing"), <<>>)
               /\ UNCHANGED <<calls, idx>>
          ELSE \E resp \in Responses(prompt) :
                  LET g == generate_param(prompt, model, temperature, api_key, resp)
                  IN /\ calls' = calls \o g.calls
                     /\ IF g.exc = NoExc
                        THEN /\ results' = DictSet(results, name, g.value)
                             /\ out' = out \o <<Line("generating", name),
                                                Line("generated", g.value)>>
                             /\ idx' = idx + 1
                             /\ UNCHANGED <<pc, ret, raised, failed>>
                        ELSE /\ GenerateFails(g.exc, <<Line("generating", name)>>)
                             /\ UNCHANGED idx
    /\ UNCHANGED <<entry, api_key, template_file, config_file, placeholders,
                   config, params, model, temperature, stages>>

\* return results (generator.py 101); main then reports them (62-63).
GenerateReturn ==
    /\ pc = "generate" /\ idx > Len(params)
    /\ ret' = [t |-> "dict", d |-> results]
    /\ IF entry = "main"
       THEN /\ out' = out \o <<Line("all_done", <<>>), Line("result", results)>>
            /\ pc' = "done"
       ELSE /\ out' = out
            /\ pc' = "returned"
    /\ UNCHANGED <<entry, api_key, template_file, config_file, placeholders,
                   config, params, model, temperature, idx, results, raised,
                   failed, calls, stages>>

Next ==
    \/ MainLoadTemplate
    \/ MainLoadConfig
    \/ MainValidate
    \/ MainAnnounce
    \/ GenerateStep
    \/ GenerateReturn

Spec == Init /\ [][Next]_vars

\* ------------------------------------------------------------ direct calls
\* generate_all(params, model, temperature) and generate_param(prompt_text,
\* model, temperature) called on their own, on any arguments; the prompt_text
\* of a generate_param call is kept as params[1].prompt.
InitGen ==
    /\ \/ /\ entry = "generate_all"
          /\ params \in SeqsUpTo(ParamDicts, MaxParams)
          /\ pc = "generate"
       \/ /\ entry = "generate_param"
          /\ params \in {<<[t |-> "dict", name |-> PyNone, prompt |-> p]>> :
                            p \in ParamPrompts \cup {PyNone}}
          /\ pc = "generate_param"
    /\ api_key \in ApiKeys
    /\ model = PyStr(<<"m">>)
    /\ temperature \in {PyNone, PyNum(0), PyNum(7)}
    /\ template_file = [kind |-> "missing", text |-> <<>>]
    /\ config_file = [kind |-> "missing", data |-> EmptyDoc]
    /\ placeholders = <<>>
    /\ config = NoConfig
    /\ idx = 1
    /\ results = <<>>
    /\ ret = Unset
    /\ raised = NoExc
    /\ failed = "none"
    /\ out = <<>>
    /\ calls = <<>>
    /\ stages = <<>>

\* generator.py 37-75, called directly.
CallGenerateParam ==
    /\ entry = "generate_param" /\ pc = "generate_param"
    /\ \E resp \in Responses(params[1].prompt) :
          LET g == generate_param(params[1].prompt, model, temperature, api_key,
                                  resp)
          IN /\ calls' = calls \o g.calls
             /\ IF g.exc = NoExc
                THEN /\ ret' = PyStr(g.value)
                     /\ pc' = "returned"
                     /\ raised' = raised
                ELSE /\ ret' = ret
                     /\ pc' = "raised"
                     /\ raised' = g.exc
    /\ UNCHANGED <<entry, api_key, template_file, config_file, placeholders,
                   config, params, model, temperature, idx, results, failed,
                   out, stages>>

NextGen ==
    \/ GenerateStep
    \/ GenerateReturn
    \/ CallGenerateParam

SpecGen == InitGen /\ [][NextGen]_vars

\* ------------------------------------------------------------ properties
IsPrefix(s, t) == Len(s) <= Len(t) /\ \A i \in 1..Len(s) : s[i] = t[i]

HasLine(k) == \E i \in 1..Len(out) : out[i].k = k

\* The provider call c ended in a usable answer.
CallOk(c) ==
    generate_param(c.request.content, c.request.model, c.request.temperature,
                   PyStr(<<"k">>), c.response).exc = NoExc

\* The content of the first choice of the answer of call c, as text.
ResponseText(c) == StrOf(_extract_choices(c.response)[1].message.content)

\* The provider answered call c with "ECHO:" + prompt.
IsEcho(c) ==
    /\ c.request.content.t = "str"
    /\ c.response = Resp("dict",
                         <<Choice(Message(PyStr(Echo \o c.request.content.s)))>>)

\* Placeholder names of the template file, parameter names of the
\* configuration file, and the temperature the configuration file resolves.
FileTemplateNames ==
    IF template_file.kind = "text"
    THEN Range(Dedupe(FindAll(template_file.text, 1), {}))
    ELSE {}

FileConfigNames ==
    IF config_file.kind = "doc" /\ config_file.data.params.t = "list"
    THEN {it.name.s : it \in {x \in Range(config_file.data.params.items) :
                                 x.t = "dict" /\ x.name.t = "str"}}
    ELSE {}

FileTemperature ==
    LET d == config_file.data IN
    IF d.temperature # PyNone THEN d.temperature
    ELSE IF d.model.t = "dict" THEN d.model.temperature
    ELSE PyNone

ConfigNames == {k.s : k \in DictKeySet(config.params)}

\* C1: in a run of main a provider call is issued only if the template's
\* placeholder set equals the configuration's parameter-name set; on a
\* mismatch in either direction the run ends with zero provider calls.
C1_GateBeforeProvider ==
    /\ (calls # <<>> \/ pc = "generate" \/ "generate_all" \in Range(stages))
          => /\ template_file.kind = "text"
             /\ config_file.kind = "doc"
             /\ FileTemplateNames = FileConfigNames
    /\ (pc = "done" /\ FileTemplateNames # FileConfigNames) => calls = <<>>

\* C1 witness: the configuration names a parameter the template never
\* references, the credential is set, and the run ended at the reconciler
\* without a provider call.
C1_Witness ==
    /\ pc = "done" /\ Truthy(api_key)
    /\ "validate_placeholders" \in Range(stages)
    /\ FileTemplateNames # {}
    /\ FileTemplateNames \subseteq FileConfigNames
    /\ FileConfigNames \ FileTemplateNames # {}
    /\ calls = <<>>

MainOrder ==
    <<"load_template", "load_config", "validate_placeholders", "generate_all">>

\* C10 as stated: main calls the Config Loader, then the Template Loader, then
\* the Reconciler, then the Generator.
C10_ConfigThenTemplate ==
    IsPrefix(stages, <<"load_config", "load_template", "validate_placeholders",
                       "generate_all">>)

\* C10 amended: main calls the Template Loader, then the Config Loader, then
\* the Reconciler, then the Generator; the configuration is read only after
\* the template loaded, the reconciler runs only after both loads succeeded,
\* the generator (and any provider call) only after the reconciler succeeded.
C10_TemplateThenConfig ==
    /\ IsPrefix(stages, MainOrder)
    /\ Len(stages) >= 2 => load_template(template_file).exc = NoExc
    /\ Len(stages) >= 3 => load_config(config_file).exc = NoExc
    /\ Len(stages) >= 4 =>
          validate_placeholders(load_template(template_file).placeholders,
                                load_config(config_file).config.params).exc = NoExc
    /\ calls # <<>> => Len(stages) = 4

\* C10 witness: all four stages ran and the provider was called.
C10_Witness == stages = MainOrder /\ calls # <<>>

\* C5, part: no exception leaves main.
C5_NoEscape == raised = NoExc

\* C5, part: a failing stage ends the run there: its handler's report is the
\* last line printed and no later stage was called.
C5_EndsAtStage ==
    failed # "none" =>
        /\ pc = "done"
        /\ ret = Unset
        /\ out[Len(out)].k = "main_error" /\ out[Len(out)].v[1] = failed
        /\ Cardinality({i \in 1..Len(out) : out[i].k = "main_error"}) = 1
        /\ failed = "template" => stages = <<"load_template">> /\ calls = <<>>
        /\ failed = "config" => Len(stages) \in {2, 3} /\ calls = <<>>
        /\ failed = "generate" => Len(stages) = 4

\* C5, part: the final result is reported only when every stage succeeded.
C5_FinalOnlyOnSuccess ==
    (HasLine("all_done") \/ HasLine("result")) =>
        /\ pc = "done" /\ failed = "none"
        /\ stages = MainOrder
        /\ Len(calls) = Len(params)
        /\ \A i \in 1..Len(calls) : CallOk(calls[i])
        /\ out[Len(out)] = Line("result", ret.d)

\* C5 as stated: a failure in any stage ends the run at that stage, no
\* exception escapes main, no generation result, partial or complete, is
\* reported, and the final result is reported only when all stages succeeded.
C5_NoResultOnFailure ==
    /\ C5_NoEscape
    /\ C5_EndsAtStage
    /\ C5_FinalOnlyOnSuccess
    /\ failed # "none" =>
          ~(HasLine("generated") \/ HasLine("result") \/ HasLine("all_done"))

\* C5 amended: as stated, except that on a failure it is the final report
\* (the completion line and the result mapping) that is never printed; the
\* progress lines generate_all printed for the calls that succeeded before
\* the failure, one generated text each, stay on the console.
C5_NoFinalReportOnFailure ==
    /\ C5_NoEscape
    /\ C5_EndsAtStage
    /\ C5_FinalOnlyOnSuccess
    /\ failed # "none" =>
          /\ ~(HasLine("result") \/ HasLine("all_done"))
          /\ Cardinality({i \in 1..Len(out) : out[i].k = "generated"})
                = Cardinality({i \in 1..Len(calls) : CallOk(calls[i])})

\* C5 witness: generation failed after an earlier call had succeeded and its
\* text had been printed.
C5_Witness ==
    /\ pc = "done" /\ failed = "generate"
    /\ HasLine("generated")
    /\ ~CallOk(calls[Len(calls)])

\* C9 as stated: a request carries a temperature only if the configuration
\* resolves one, and then exactly that value.
C9_TemperatureOnlyIfSet ==
    \A i \in 1..Len(calls) :
        LET r == calls[i].request IN
        IF FileTemperature = PyNone
        THEN ~r.has_temperature
        ELSE r.has_temperature /\ r.temperature = FileTemperature

\* C9 amended: in a run of main every request carries a temperature: the
\* value the configuration resolves (top-level, else model.temperature; 0
\* included), and 1.0 when it resolves none.
C9_TemperatureOrDefault ==
    \A i \in 1..Len(calls) :
        LET r == calls[i].request IN
        /\ r.has_temperature
        /\ r.temperature = IF FileTemperature = PyNone
                           THEN PyNum(DefaultTemperature)
                           ELSE FileTemperature

\* C9 witness: the configuration resolves no temperature and a request went
\* out.
C9_Witness ==
    /\ calls # <<>>
    /\ FileTemperature = PyNone
    /\ calls[1].request.has_temperature
    /\ calls[1].request.temperature = PyNum(DefaultTemperature)

\* C6: every configuration record load_config returns has a non-empty params
\* mapping whose values are all non-empty strings.
C6_ParamsNonEmptyStrings ==
    (pc = "validate" \/ Len(stages) >= 3) =>
        /\ config.params # <<>>
        /\ \A i \in 1..Len(config.params) :
              /\ config.params[i][2].t = "str"
              /\ config.params[i][2].s # <<>>

C8_SequentialNoRetry ==
    entry = "generate_all" =>
        /\ Len(calls) <= Len(params)
        /\ \A i \in 1..Len(calls) : calls[i].request.content = params[i].prompt
        /\ \A i \in 1..(Len(calls) - 1) : CallOk(calls[i])
        /\ pc = "generate" => Len(calls) = idx - 1
        /\ pc = "returned" =>
              /\ Len(calls) = Len(params)
              /\ \A i \in 1..Len(calls) : CallOk(calls[i])
        /\ (pc = "raised" /\ raised.type = "RuntimeError") =>
              Len(calls) = idx /\ ~CallOk(calls[idx])
        /\ (pc = "raised" /\ raised.type # "RuntimeError") =>
              Len(calls) = idx - 1

\* C8 witness: the call for the first of two well-formed parameters failed
\* and no second call was made.
C8_Witness ==
    /\ entry = "generate_all" /\ pc = "raised"
    /\ Len(params) = 2 /\ idx = 1
    /\ Truthy(params[2].name) /\ Truthy(params[2].prompt)
    /\ Len(calls) = 1 /\ ~CallOk(calls[1])

ParamNameSeq == [i \in 1..Len(params) |-> params[i].name]

\* Position of the last parameter carrying the same name as the i-th.
LastOf(i) ==
    CHOOSE j \in 1..Len(params) :
        /\ params[j].name = params[i].name
        /\ \A k \in (j + 1)..Len(params) : params[k].name # params[i].name

\* C4 as stated: when every call succeeds the returned mapping has the input
\* names as keys, in input order, each name mapped to the stripped text the
\* provider returned for its prompt; with an echoing provider name n with
\* prompt p maps to "ECHO:" + p.
C4_EchoExact ==
    (entry = "generate_all" /\ pc = "returned") =>
        /\ DictKeySet(ret.d) = Range(ParamNameSeq)
        /\ DictKeys(ret.d) = ParamNameSeq
        /\ \A i \in 1..Len(params) :
              /\ DictGet(ret.d, params[i].name) = Strip(ResponseText(calls[i]))
              /\ IsEcho(calls[i]) =>
                    DictGet(ret.d, params[i].name) = Echo \o params[i].prompt.s

\* C4 amended: the keys are the input names in order of first occurrence
\* (the input order when no name repeats); each name maps to the stripped
\* text returned for the prompt of its last occurrence; with an echoing
\* provider that is "ECHO:" + p without p's trailing whitespace.
C4_EchoStripped ==
    (entry = "generate_all" /\ pc = "returned") =>
        /\ DictKeySet(ret.d) = Range(ParamNameSeq)
        /\ DictKeys(ret.d) = Dedupe(ParamNameSeq, {})
        /\ \A i \in 1..Len(params) :
              LET j == LastOf(i) IN
              /\ DictGet(ret.d, params[i].name) = Strip(ResponseText(calls[j]))
              /\ IsEcho(calls[j]) =>
                    DictGet(ret.d, params[i].name)
                       = Echo \o RStrip(params[j].prompt.s)

\* C4 witness: two differently named parameters, the first prompt ending in
\* whitespace, both answered by echo, and the mapping returned.
C4_Witness ==
    /\ entry = "generate_all" /\ pc = "returned"
    /\ Len(params) = 2 /\ params[1].name # params[2].name
    /\ params[1].prompt = PyStr(<<"q", " ">>)
    /\ IsEcho(calls[1]) /\ IsEcho(calls[2])

MissingCredential == Exc("EnvironmentError", "no_api_key")

\* C3 as stated: with the credential unset generate_all and generate_param
\* fail with the missing-credential error, for every parameter list, and no
\* provider call is attempted.
C3_AlwaysMissingCredential ==
    ~Truthy(api_key) =>
        /\ calls = <<>>
        /\ pc # "returned"
        /\ pc = "raised" => raised = MissingCredential

\* C3 amended: with the credential unset no provider call is ever attempted;
\* generate_param fails with the missing-credential error; generate_all fails
\* with it when its first parameter has a name and a prompt, returns the empty
\* mapping for the empty list, and fails with the parameter error when its
\* first parameter lacks a name or a prompt.
C3_CredentialBeforeCall ==
    ~Truthy(api_key) =>
        /\ calls = <<>>
        /\ entry = "generate_param" =>
              /\ pc # "returned"
              /\ pc = "raised" => raised = MissingCredential
        /\ entry = "generate_all" =>
              /\ pc = "returned" => params = <<>> /\ ret = [t |-> "dict", d |-> <<>>]
              /\ pc = "raised" =>
                    /\ params # <<>>
                    /\ raised = IF Truthy(params[1].name) /\ Truthy(params[1].prompt)
                                THEN MissingCredential
                                ELSE Exc("ValueError", "param_missing")
              /\ params = <<>> => pc # "raised"

\* C3 witness: generate_all on a well-formed list failed for the missing
\* credential.
C3_Witness ==
    /\ entry = "generate_all" /\ ~Truthy(api_key)
    /\ pc = "raised" /\ raised = MissingCredential
    /\ Len(params) = 2

====
